---- MODULE Spec2Model ----
(***************************************************************************)
(* Model of the three catalog scripts:                                     *)
(*   scripts/generate-index.py     (generate_index, SpecIndex)             *)
(*   scripts/validate-namespace.py (validate_namespace, SpecNamespace)     *)
(*   scripts/validate-rulebook.py  (validate_rulebook + main, SpecRulebook)*)
(*                                                                         *)
(* Strings the code parses (versions, names, packages, descriptions) are   *)
(* sequences of tokens; a token is a one-character string or a whole word  *)
(* of lower-case letters.  No token is a prefix of another one, so prefix  *)
(* and equality tests on token sequences agree with the tests on the       *)
(* strings.  Strings the code only compares (apiVersion, kind) are atoms.  *)
(* An absent key and an empty string are both falsy in Python and take the *)
(* same branch wherever these scripts read them; both are <<>>.            *)
(***************************************************************************)
EXTENDS Integers, Sequences, FiniteSets, TLC

VARIABLES
    \* generate-index.py
    rulebooks,      \* sorted(rulebooks_dir.iterdir()): the directory entries
    registry,       \* what the external registry answers (fixed during a run)
    release_tags,   \* generate_index: release_tags
    entries,        \* generate_index: entries (name -> list of entry)
    clock,          \* number of datetime.now() calls made so far
    gi_i,           \* generate_index: position of the scan loop
    gi_pc,          \* generate_index: "list", "scan", "sort", "done", "raised"
    index,          \* the value generate_index returned (NoIndex before)
    rulebooks_dir_exists,
    \* validate-namespace.py
    vn_manifest,    \* manifest.yaml loads to a "mapping", to "other", or is "missing"
    vn_name,        \* metadata.name of the manifest, <<>> when there is none
    vn_policies_dir,\* policies/ exists
    vn_files,       \* the .rego files under policies/, helpers/ and system/
    vn_i,           \* validate_namespace: position in the files to validate
    vn_pc,          \* validate_namespace: "start", "files", "done", "raised"
    vn_errors,      \* validate_namespace: errors
    \* validate-rulebook.py
    vr_path,        \* what sys.argv[1] names: "missing", "file" or "dir"
    vr_dirname,     \* rulebook_path.name
    vr_fs,          \* the files and directories of the rulebook
    vr_file,        \* manifest.yaml: "missing", "invalid", "empty", "other", "doc"
    vr_manifest,    \* the document yaml.safe_load returns
    vr_manifest_errors, \* what validate_manifest returned (line 172)
    vr_errors,      \* validate_rulebook: errors
    vr_warnings,    \* validate_rulebook: warnings
    vr_exit,        \* the exit code of the process, -1 while it runs
    vr_pc           \* main: "start", "returned" (validate_rulebook returned),
                    \* "exited" (sys.exit), "crashed" (uncaught exception)

gi_vars == <<rulebooks, registry, release_tags, entries, clock, gi_i, gi_pc, index,
             rulebooks_dir_exists>>

vn_vars == <<vn_manifest, vn_name, vn_policies_dir, vn_files, vn_i, vn_pc, vn_errors>>

vr_vars == <<vr_path, vr_dirname, vr_fs, vr_file, vr_manifest, vr_manifest_errors,
             vr_errors, vr_warnings, vr_exit, vr_pc>>

vars == <<gi_vars, vn_vars, vr_vars>>

------------------------------------------------------------------------------
(* Python string and sequence helpers                                        *)

Digits == {"0", "1", "2", "3", "4", "5", "6", "7", "8", "9"}

DigitVal(c) ==
    CASE c = "0" -> 0 [] c = "1" -> 1 [] c = "2" -> 2 [] c = "3" -> 3
      [] c = "4" -> 4 [] c = "5" -> 5 [] c = "6" -> 6 [] c = "7" -> 7
      [] c = "8" -> 8 [] c = "9" -> 9

\* str.startswith
StartsWith(s, p) == Len(p) <= Len(s) /\ SubSeq(s, 1, Len(p)) = p

\* str.endswith
EndsWith(s, p) == Len(p) <= Len(s) /\ SubSeq(s, Len(s) - Len(p) + 1, Len(s)) = p

\* str.strip(): drop leading and trailing whitespace
RECURSIVE LStrip(_)
LStrip(s) == IF s # <<>> /\ Head(s) = " " THEN LStrip(Tail(s)) ELSE s

RECURSIVE RStrip(_)
RStrip(s) ==
    IF s # <<>> /\ s[Len(s)] = " " THEN RStrip(SubSeq(s, 1, Len(s) - 1)) ELSE s

Strip(s) == RStrip(LStrip(s))

\* str.split(sep) for a one-character sep: always at least one piece
RECURSIVE SplitAcc(_, _, _)
SplitAcc(s, sep, cur) ==
    IF s = <<>> THEN <<cur>>
    ELSE IF Head(s) = sep THEN <<cur>> \o SplitAcc(Tail(s), sep, <<>>)
    ELSE SplitAcc(Tail(s), sep, Append(cur, Head(s)))

Split(s, sep) == SplitAcc(s, sep, <<>>)

\* value of a digit string, underscores skipped
RECURSIVE DigitsValue(_, _)
DigitsValue(s, acc) ==
    IF s = <<>> THEN acc
    ELSE IF Head(s) = "_" THEN DigitsValue(Tail(s), acc)
    ELSE DigitsValue(Tail(s), acc * 10 + DigitVal(Head(s)))

\* the digit part int() accepts: digits, single underscores between digits
IsIntBody(b) ==
    /\ b # <<>>
    /\ b[1] \in Digits
    /\ b[Len(b)] \in Digits
    /\ \A k \in 1..Len(b) : b[k] \in Digits \cup {"_"}
    /\ \A k \in 1..(Len(b) - 1) : ~(b[k] = "_" /\ b[k + 1] = "_")

\* int(s): whitespace stripped, optional sign; ok = FALSE is ValueError
ParseInt(s) ==
    LET t == Strip(s)
        signed == t # <<>> /\ Head(t) \in {"-", "+"}
        body == IF signed THEN Tail(t) ELSE t
    IN  IF IsIntBody(body)
        THEN [ok |-> TRUE,
              v |-> IF signed /\ Head(t) = "-"
                    THEN 0 - DigitsValue(body, 0) ELSE DigitsValue(body, 0)]
        ELSE [ok |-> FALSE, v |-> 0]

\* Python's ordering of tuples of integers
RECURSIVE TupleLess(_, _)
TupleLess(a, b) ==
    IF a = <<>> THEN b # <<>>
    ELSE IF b = <<>> THEN FALSE
    ELSE IF Head(a) < Head(b) THEN TRUE
    ELSE IF Head(a) > Head(b) THEN FALSE
    ELSE TupleLess(Tail(a), Tail(b))

------------------------------------------------------------------------------
(* generate-index.py                                                         *)

API_VERSION == "cupcake.dev/v1"

\* Bounds of the generate_index inputs
MaxDirs == 2

\* Version strings of the manifests: 1.2.0, 1.10.0, 01.2.0 and 1.0.0-beta
IndexVersions ==
    { <<"1", ".", "2", ".", "0">>,
      <<"1", ".", "1", "0", ".", "0">>,
      <<"0", "1", ".", "2", ".", "0">>,
      <<"1", ".", "0", ".", "0", "-", "beta">> }

IndexNames == { <<"foo">>, <<"bar">> }

Manifest(api, kind, name, version) ==
    [apiVersion |-> api, kind |-> kind,
     metadata |-> [name |-> name, version |-> version]]

\* Manifests parse_manifest rejects, one per early return
RejectedManifests ==
    { Manifest("cupcake.dev/v2", "Rulebook", <<"foo">>, <<"1", ".", "2", ".", "0">>),
      Manifest(API_VERSION, "Catalog", <<"foo">>, <<"1", ".", "2", ".", "0">>),
      Manifest(API_VERSION, "Rulebook", <<>>, <<"1", ".", "2", ".", "0">>),
      Manifest(API_VERSION, "Rulebook", <<"foo">>, <<>>) }

IndexManifests ==
    { Manifest(API_VERSION, "Rulebook", n, v) : n \in IndexNames, v \in IndexVersions }
        \cup RejectedManifests

NoManifest == Manifest("", "", <<>>, <<>>)

\* One entry of rulebooks/: a plain file, a directory without manifest.yaml,
\* a directory whose manifest.yaml loads to a mapping, or one whose
\* manifest.yaml loads to something else (an empty file loads to None)
DirEntries ==
    { [is_dir |-> FALSE, has_manifest |-> FALSE, mapping |-> FALSE, manifest |-> NoManifest],
      [is_dir |-> TRUE, has_manifest |-> FALSE, mapping |-> FALSE, manifest |-> NoManifest],
      [is_dir |-> TRUE, has_manifest |-> TRUE, mapping |-> FALSE, manifest |-> NoManifest] }
        \cup { [is_dir |-> TRUE, has_manifest |-> TRUE, mapping |-> TRUE, manifest |-> m] :
                   m \in IndexManifests }

\* tag = f"{name}-{version}"
Tag(name, version) == name \o <<"-">> \o version

\* parse_manifest: TRUE when the manifest is returned, FALSE when None is
parse_manifest(m) ==
    IF m.apiVersion # API_VERSION THEN FALSE
    ELSE IF m.kind # "Rulebook" THEN FALSE
    ELSE IF m.metadata.name = <<>> \/ m.metadata.version = <<>> THEN FALSE
    ELSE TRUE

\* manifest.get raises AttributeError, which parse_manifest does not catch
ParseRaises(d) == d.is_dir /\ d.has_manifest /\ ~d.mapping

Accepted(d) == d.is_dir /\ d.has_manifest /\ d.mapping /\ parse_manifest(d.manifest)

\* Assets of a release: {name, url, digest?}
TarGz == <<".tar.gz">>

AssetZip == ("name" :> <<"src", ".zip">>) @@ ("url" :> "url-zip")
AssetTarDigest ==
    ("name" :> <<"pkg", ".tar.gz">>) @@ ("url" :> "url-tar-a")
        @@ ("digest" :> <<"sha256:", <<"content-a">>>>)
AssetTarNoDigest == ("name" :> <<"pkg", ".tar.gz">>) @@ ("url" :> "url-tar-b")

\* createdAt of a release: a time before the run
ReleaseTime == [src |-> "release", t |-> 0]

\* What 'gh release view <tag>' answers: a failure, or a JSON object
\* {createdAt?, assets} (gh prints every field it is asked for, so the
\* object is never empty)
ViewFailed == [ok |-> FALSE, json |-> ("assets" :> <<>>)]
ViewJson(j) == [ok |-> TRUE, json |-> j]

ReleaseViews ==
    { ViewFailed,
      ViewJson(("assets" :> <<AssetZip>>)),
      ViewJson(("createdAt" :> ReleaseTime) @@ ("assets" :> <<AssetZip, AssetTarDigest>>)),
      ViewJson(("createdAt" :> ReleaseTime)
                   @@ ("assets" :> <<AssetTarNoDigest, AssetTarDigest>>)) }

\* The tags the scan can ask about
TagsOf(rbs) ==
    { Tag(rbs[k].manifest.metadata.name, rbs[k].manifest.metadata.version) :
          k \in { j \in 1..Len(rbs) : Accepted(rbs[j]) } }

\* Registry states: the listing fails, or lists some tags, each with what
\* the detail lookup answers for it
Registries(rbs) ==
    { [listing |-> "error", tags |-> {}, view |-> <<>>] }
        \cup { [listing |-> "ok", tags |-> DOMAIN v, view |-> v] :
                   v \in UNION { [T -> ReleaseViews] : T \in SUBSET TagsOf(rbs) } }

\* get_release_tags: [] on CalledProcessError / FileNotFoundError /
\* JSONDecodeError, else the listed tagName values
get_release_tags(reg) == IF reg.listing = "error" THEN {} ELSE reg.tags

\* get_release_info: None on the same errors, else the parsed JSON
get_release_info(reg, tag) == reg.view[tag]

\* 'if release:' is false for None
Truthy(release) == release.ok

\* dict.get(key, default)
Get(d, key, default) == IF key \in DOMAIN d THEN d[key] ELSE default

\* datetime.now(timezone.utc).isoformat() at the n-th call of the run
Now(n) == [src |-> "now", t |-> n]

\* next((a for a in assets if a.get("name", "").endswith(".tar.gz")), None):
\* the position of the first tarball, 0 for None
FirstTarball(assets) ==
    LET hits == { k \in 1..Len(assets) : EndsWith(Get(assets[k], "name", <<>>), TarGz) }
    IN  IF hits = {} THEN 0 ELSE CHOOSE k \in hits : \A j \in hits : k <= j

\* f"sha256:{hashlib.sha256(tag.encode()).hexdigest()}": the hash is an
\* injective function of the tag
PlaceholderDigest(tag) == <<"sha256:", tag>>

\* key=lambda e: tuple(map(int, e["version"].split("."))); ok = FALSE when
\* int() raises ValueError
VersionKey(version) ==
    LET parts == Split(version, ".")
        parsed == [k \in 1..Len(parts) |-> ParseInt(parts[k])]
    IN  [ok |-> \A k \in 1..Len(parts) : parsed[k].ok,
         key |-> [k \in 1..Len(parts) |-> parsed[k].v]]

\* Mutant of InsertDesc: the version strings are compared as strings,
\* character by character (key=lambda e: e["version"])
CharCode(c) ==
    IF c = "-" THEN 45 ELSE IF c = "." THEN 46
    ELSE IF c \in Digits THEN 48 + DigitVal(c) ELSE 97

InsertDescLexical(sorted, e) ==
    LET codes(v) == [k \in 1..Len(v) |-> CharCode(v[k])]
        n == Cardinality({ k \in 1..Len(sorted) :
                 ~TupleLess(codes(sorted[k]["version"]), codes(e["version"])) })
    IN  SubSeq(sorted, 1, n) \o <<e>> \o SubSeq(sorted, n + 1, Len(sorted))

\* list.sort(key=..., reverse=True) is stable: e goes behind every element
\* whose key is not less than its own
InsertDesc(sorted, e) ==
    LET n == Cardinality({ k \in 1..Len(sorted) :
                 ~TupleLess(VersionKey(sorted[k]["version"]).key,
                            VersionKey(e["version"]).key) })
    IN  SubSeq(sorted, 1, n) \o <<e>> \o SubSeq(sorted, n + 1, Len(sorted))

RECURSIVE SortDesc(_)
SortDesc(list) ==
    IF list = <<>> THEN <<>>
    ELSE InsertDesc(SortDesc(SubSeq(list, 1, Len(list) - 1)), list[Len(list)])

\* the keys of a list are all computed before anything moves
KeysOk(list) == \A k \in 1..Len(list) : VersionKey(list[k]["version"]).ok

\* Mutant of BuildEntry: the placeholder digest is derived from the time of
\* the run instead of the tag
BuildEntryTimeDigest(m, reg, tags, n) ==
    LET name == m.metadata.name
        version == m.metadata.version
        tag == Tag(name, version)
        base == ("name" :> name) @@ ("version" :> version)
        release == get_release_info(reg, tag)
        assets == Get(release.json, "assets", <<>>)
        t == FirstTarball(assets)
        tarball == assets[t]
    IN  IF tag \in tags
        THEN IF Truthy(release)
             THEN LET created == ("created" :> Get(release.json, "createdAt", Now(n)))
                  IN  IF t # 0
                      THEN base @@ created
                               @@ ("urls" :> <<Get(tarball, "url", "")>>)
                               @@ ("digest" :>
                                      IF "digest" \in DOMAIN tarball
                                      THEN tarball["digest"]
                                      ELSE <<"sha256:", <<"run", n>>>>)
                      ELSE base @@ created
             ELSE base @@ ("created" :> Now(n))
        ELSE base @@ ("created" :> Now(n))

\* lines 148-200: the entry built for an accepted manifest, n the number of
\* now() calls made before
BuildEntry(m, reg, tags, n) ==
    LET name == m.metadata.name
        version == m.metadata.version
        tag == Tag(name, version)
        base == ("name" :> name) @@ ("version" :> version)
        release == get_release_info(reg, tag)
        assets == Get(release.json, "assets", <<>>)
        t == FirstTarball(assets)
        tarball == assets[t]
    IN  IF tag \in tags
        THEN IF Truthy(release)
             THEN LET created == ("created" :> Get(release.json, "createdAt", Now(n)))
                  IN  IF t # 0
                      THEN base @@ created
                               @@ ("urls" :> <<Get(tarball, "url", "")>>)
                               @@ ("digest" :>
                                      IF "digest" \in DOMAIN tarball
                                      THEN tarball["digest"]
                                      ELSE PlaceholderDigest(tag))
                      ELSE base @@ created
             ELSE base @@ ("created" :> Now(n))
        ELSE base @@ ("created" :> Now(n))

\* Mutant of AddEntry: the entry replaces the list of its name
AddEntryOverwrite(es, e) ==
    LET name == e["name"]
    IN  IF name \in DOMAIN es
        THEN [es EXCEPT ![name] = <<e>>]
        ELSE es @@ (name :> <<e>>)

\* lines 203-205
AddEntry(es, e) ==
    LET name == e["name"]
    IN  IF name \in DOMAIN es
        THEN [es EXCEPT ![name] = Append(@, e)]
        ELSE es @@ (name :> <<e>>)

NoIndex ==
    [apiVersion |-> "", kind |-> "", generated |-> [src |-> "none", t |-> 0],
     entries |-> <<>>]

Index(es, n) ==
    [apiVersion |-> API_VERSION, kind |-> "CatalogIndex", generated |-> Now(n),
     entries |-> es]

\* lines 134-205 as a function of the order the directories are taken in:
\* whether parse_manifest raised, and the lists built so far
RECURSIVE ScanLoop(_, _, _, _, _)
ScanLoop(dirs, reg, tags, es, n) ==
    IF dirs = <<>> THEN [raised |-> FALSE, entries |-> es]
    ELSE LET d == Head(dirs)
         IN  IF ParseRaises(d) THEN [raised |-> TRUE, entries |-> es]
             ELSE IF ~Accepted(d) THEN ScanLoop(Tail(dirs), reg, tags, es, n)
             ELSE ScanLoop(Tail(dirs), reg, tags,
                           AddEntry(es, BuildEntry(d.manifest, reg, tags, n)), n + 1)

\* lines 120-211 run on the directories in the given order: whether the run
\* raised, and the sorted lists of the index otherwise
EntriesInOrder(dirs, reg) ==
    LET scanned == ScanLoop(dirs, reg, get_release_tags(reg), <<>>, 0)
    IN  IF scanned.raised
           \/ \E name \in DOMAIN scanned.entries : ~KeysOk(scanned.entries[name])
        THEN [raised |-> TRUE, entries |-> <<>>]
        ELSE [raised |-> FALSE,
              entries |-> [name \in DOMAIN scanned.entries |->
                              SortDesc(scanned.entries[name])]]

\* the other scripts are not running
VnIdle ==
    /\ vn_manifest = "missing"
    /\ vn_name = <<>>
    /\ vn_policies_dir = FALSE
    /\ vn_files = <<>>
    /\ vn_i = 1
    /\ vn_pc = "idle"
    /\ vn_errors = <<>>

VrIdle ==
    /\ vr_path = "missing"
    /\ vr_dirname = <<>>
    /\ vr_fs = [readme |-> FALSE, changelog |-> FALSE, policies |-> FALSE,
                evaluate |-> FALSE, harness_dirs |-> [h \in {"claude", "bogus"} |-> "missing"]]
    /\ vr_file = "missing"
    /\ vr_manifest = [apiVersion |-> "", kind |-> "", metadata_type |-> "absent",
                      metadata |-> [name |-> <<>>, version |-> <<>>, description |-> <<>>,
                                    harnesses |-> [type |-> "none", items |-> <<>>],
                                    maintainers |-> [type |-> "none", items |-> <<>>]]]
    /\ vr_manifest_errors = <<>>
    /\ vr_errors = <<>>
    /\ vr_warnings = <<>>
    /\ vr_exit = 0 - 1
    /\ vr_pc = "idle"

InitIndex ==
    /\ rulebooks_dir_exists \in BOOLEAN
    /\ rulebooks \in IF rulebooks_dir_exists
                     THEN UNION { [1..n -> DirEntries] : n \in 0..MaxDirs }
                     ELSE { <<>> }
    /\ registry \in Registries(rulebooks)
    /\ release_tags = {}
    /\ entries = <<>>
    /\ clock = 0
    /\ gi_i = 1
    /\ gi_pc = "list"
    /\ index = NoIndex
    /\ VnIdle
    /\ VrIdle

\* lines 120-121 and 125: the tags are listed, the directory exists
ListReleases ==
    /\ gi_pc = "list"
    /\ rulebooks_dir_exists
    /\ release_tags' = get_release_tags(registry)
    /\ gi_pc' = "scan"
    /\ UNCHANGED <<vn_vars, vr_vars, rulebooks, registry, entries, clock, gi_i, index, rulebooks_dir_exists>>

\* lines 120-132: no rulebooks/ directory, the empty index is returned
NoRulebooksDir ==
    /\ gi_pc = "list"
    /\ ~rulebooks_dir_exists
    /\ release_tags' = get_release_tags(registry)
    /\ index' = Index(entries, clock)
    /\ clock' = clock + 1
    /\ gi_pc' = "done"
    /\ UNCHANGED <<vn_vars, vr_vars, rulebooks, registry, entries, gi_i, rulebooks_dir_exists>>

\* lines 135-146: an entry of rulebooks/ that yields no index entry
ScanSkip ==
    /\ gi_pc = "scan"
    /\ gi_i <= Len(rulebooks)
    /\ ~Accepted(rulebooks[gi_i])
    /\ ~ParseRaises(rulebooks[gi_i])
    /\ gi_i' = gi_i + 1
    /\ UNCHANGED <<vn_vars, vr_vars, rulebooks, registry, release_tags, entries, clock, gi_pc, index,
                   rulebooks_dir_exists>>

\* lines 135-205: a directory with an accepted manifest
ScanEntry ==
    /\ gi_pc = "scan"
    /\ gi_i <= Len(rulebooks)
    /\ Accepted(rulebooks[gi_i])
    /\ entries' = AddEntry(entries,
                      BuildEntry(rulebooks[gi_i].manifest, registry, release_tags, clock))
    /\ clock' = clock + 1
    /\ gi_i' = gi_i + 1
    /\ UNCHANGED <<vn_vars, vr_vars, rulebooks, registry, release_tags, gi_pc, index, rulebooks_dir_exists>>

\* lines 144 and 93: parse_manifest raises on a manifest that is no mapping
ScanRaises ==
    /\ gi_pc = "scan"
    /\ gi_i <= Len(rulebooks)
    /\ ParseRaises(rulebooks[gi_i])
    /\ gi_pc' = "raised"
    /\ UNCHANGED <<vn_vars, vr_vars, rulebooks, registry, release_tags, entries, clock, gi_i,
                   index, rulebooks_dir_exists>>

\* lines 207-218: every list is sorted and the index returned
SortAndReturn ==
    /\ gi_pc = "scan"
    /\ gi_i > Len(rulebooks)
    /\ \A name \in DOMAIN entries : KeysOk(entries[name])
    /\ entries' = [name \in DOMAIN entries |-> SortDesc(entries[name])]
    /\ index' = Index(entries', clock)
    /\ clock' = clock + 1
    /\ gi_pc' = "done"
    /\ UNCHANGED <<vn_vars, vr_vars, rulebooks, registry, release_tags, gi_i, rulebooks_dir_exists>>

\* lines 208-211: int() raises ValueError on a version component, nothing
\* is returned
SortRaises ==
    /\ gi_pc = "scan"
    /\ gi_i > Len(rulebooks)
    /\ \E name \in DOMAIN entries : ~KeysOk(entries[name])
    /\ gi_pc' = "raised"
    /\ UNCHANGED <<vn_vars, vr_vars, rulebooks, registry, release_tags, entries, clock, gi_i, index,
                   rulebooks_dir_exists>>

NextIndex ==
    \/ ListReleases
    \/ NoRulebooksDir
    \/ ScanSkip
    \/ ScanEntry
    \/ ScanRaises
    \/ SortAndReturn
    \/ SortRaises

SpecIndex == InitIndex /\ [][NextIndex]_vars

------------------------------------------------------------------------------
(* Claims about generate_index                                               *)

Returned == gi_pc = "done"

\* every entry of the returned index, with the name it is listed under
IndexEntries ==
    UNION { { <<name, k>> : k \in 1..Len(index.entries[name]) } :
                name \in DOMAIN index.entries }

EntryAt(nk) == index.entries[nk[1]][nk[2]]

\* a is numerically greater than b, component by component; a tuple that
\* extends another one is the greater
NumericGreater(a, b) ==
    \/ \E k \in 1..Len(a) :
          /\ k <= Len(b)
          /\ a[k] > b[k]
          /\ \A j \in 1..(k - 1) : a[j] = b[j]
    \/ /\ Len(a) > Len(b)
       /\ \A j \in 1..Len(b) : a[j] = b[j]

VersionTuple(version) ==
    LET parts == Split(version, ".")
    IN  [k \in 1..Len(parts) |-> ParseInt(parts[k]).v]

\* C1: in the returned index the entries of each name are ordered by version
\* descending, versions compared as tuples of integers: no entry is listed
\* behind an entry of the same name with a numerically smaller version.
C1_SortedByVersionDesc ==
    Returned =>
        \A name \in DOMAIN index.entries :
            \A p, q \in 1..Len(index.entries[name]) :
                p < q =>
                    ~NumericGreater(VersionTuple(index.entries[name][q]["version"]),
                                    VersionTuple(index.entries[name][p]["version"]))

\* 1.2.0 was scanned before 1.10.0, and 1.10.0 is listed first
C1_Witness ==
    /\ Returned
    /\ Len(rulebooks) >= 2
    /\ Accepted(rulebooks[1]) /\ Accepted(rulebooks[2])
    /\ rulebooks[1].manifest.metadata.version = <<"1", ".", "2", ".", "0">>
    /\ rulebooks[2].manifest.metadata.version = <<"1", ".", "1", "0", ".", "0">>
    /\ \E name \in DOMAIN index.entries :
          /\ Len(index.entries[name]) = 2
          /\ index.entries[name][1]["version"] = <<"1", ".", "1", "0", ".", "0">>
          /\ index.entries[name][2]["version"] = <<"1", ".", "2", ".", "0">>

\* the listing failed, or it succeeded and the detail lookup fails for every
\* listed tag
RegistryFailed ==
    \/ registry.listing = "error"
    \/ /\ registry.tags # {}
       /\ \A tag \in registry.tags : ~registry.view[tag].ok

Finished == gi_pc \in {"done", "raised"}

\* as many entries of a name and version as accepted directories with them
EveryAcceptedHasEntry ==
    \A n \in IndexNames, v \in IndexVersions :
        Cardinality({ k \in 1..Len(rulebooks) :
                        /\ Accepted(rulebooks[k])
                        /\ rulebooks[k].manifest.metadata.name = n
                        /\ rulebooks[k].manifest.metadata.version = v })
          = Cardinality({ nk \in IndexEntries :
                            EntryAt(nk)["name"] = n /\ EntryAt(nk)["version"] = v })

FreshWithoutRelease(e) ==
    /\ e["created"].src = "now"
    /\ "urls" \notin DOMAIN e
    /\ "digest" \notin DOMAIN e

\* C2: when the registry fails, generate_index still returns an index; every
\* directory with an accepted manifest has an entry, and every entry has a
\* fresh 'created' and neither 'urls' nor 'digest'.
C2_RegistryFailureStillReturns ==
    (RegistryFailed /\ Finished) =>
        /\ Returned
        /\ EveryAcceptedHasEntry
        /\ \A nk \in IndexEntries : FreshWithoutRelease(EntryAt(nk))

\* C9: in the returned index no two entries have the same name and version.
C9_UniqueNameVersion ==
    Returned =>
        \A a, b \in IndexEntries :
            a # b => \/ EntryAt(a)["name"] # EntryAt(b)["name"]
                     \/ EntryAt(a)["version"] # EntryAt(b)["version"]

\* the registry lists the entry's tag, the lookup succeeds, and one of the
\* release's assets is a tar archive
HasTarRelease(e) ==
    LET tag == e["name"] \o <<"-">> \o e["version"]
    IN  /\ registry.listing = "ok"
        /\ tag \in registry.tags
        /\ registry.view[tag].ok
        /\ \E k \in 1..Len(registry.view[tag].json["assets"]) :
              EndsWith(registry.view[tag].json["assets"][k]["name"], <<".tar.gz">>)

\* the tar assets of the entry's release that 'urls' points at
UrlAssets(e) ==
    LET tag == e["name"] \o <<"-">> \o e["version"]
        assets == registry.view[tag].json["assets"]
    IN  { assets[k] : k \in { j \in 1..Len(assets) :
                                /\ EndsWith(assets[j]["name"], <<".tar.gz">>)
                                /\ e["urls"] = <<assets[j]["url"]>> } }

\* C10: an entry carries 'urls' and 'digest' exactly when its tag is listed,
\* the detail lookup succeeds and the release has a tar-archive asset; then
\* 'urls' is the one-element list of that asset's URL, 'digest' is the asset's
\* digest when it has one, and otherwise a placeholder that is the same for
\* entries of the same tag.
C10_UrlsAndDigest ==
    Returned =>
        /\ \A nk \in IndexEntries :
              LET e == EntryAt(nk)
              IN  /\ ("urls" \in DOMAIN e) <=> HasTarRelease(e)
                  /\ ("digest" \in DOMAIN e) <=> HasTarRelease(e)
                  /\ HasTarRelease(e) =>
                        /\ UrlAssets(e) # {}
                        /\ \A a \in UrlAssets(e) :
                              "digest" \in DOMAIN a => e["digest"] = a["digest"]
        /\ \A x, y \in IndexEntries :
              LET e == EntryAt(x)
                  f == EntryAt(y)
              IN  ( /\ HasTarRelease(e) /\ HasTarRelease(f)
                    /\ \E a \in UrlAssets(e) : "digest" \notin DOMAIN a
                    /\ \E a \in UrlAssets(f) : "digest" \notin DOMAIN a
                    /\ e["name"] \o <<"-">> \o e["version"]
                         = f["name"] \o <<"-">> \o f["version"] )
                  => e["digest"] = f["digest"]

\* two entries of one tag, both with the placeholder digest, and an entry
\* with the asset's own digest
C10_Witness ==
    /\ Returned
    /\ \E x, y \in IndexEntries :
          /\ x # y
          /\ EntryAt(x)["name"] = EntryAt(y)["name"]
          /\ EntryAt(x)["version"] = EntryAt(y)["version"]
          /\ HasTarRelease(EntryAt(x))
          /\ \E a \in UrlAssets(EntryAt(x)) : "digest" \notin DOMAIN a
          /\ "digest" \in DOMAIN EntryAt(x)

------------------------------------------------------------------------------
(* validate-namespace.py                                                     *)

\* Bound of the validate_namespace inputs: .rego files in the rulebook
MaxFiles == 2

\* Words of the token vocabulary: lower-case letters only
LowerWords ==
    {"cupcake", "catalog", "policies", "helpers", "system", "global", "foo", "bar",
     "my", "rules", "extra", "beta", "other", "package"}

\* \w: letters, digits and the underscore
IsWord(t) == t \in LowerWords \cup Digits \cup {"_", "Foo"}

\* RESERVED_PREFIXES
RESERVED_PREFIXES ==
    << <<"cupcake", ".", "policies">>,
       <<"cupcake", ".", "global">>,
       <<"cupcake", ".", "system">>,
       <<"cupcake", ".", "helpers">> >>

\* str.replace(old, new), every occurrence from the left
RECURSIVE Replace(_, _, _)
Replace(s, old, new) ==
    IF s = <<>> THEN <<>>
    ELSE IF StartsWith(s, old)
         THEN new \o Replace(SubSeq(s, Len(old) + 1, Len(s)), old, new)
         ELSE <<Head(s)>> \o Replace(Tail(s), old, new)

\* normalize_name
normalize_name(name) == Replace(name, <<"-">>, <<"_">>)

\* s.rsplit(".", 1)[0]: s up to its last ".", all of s when it has none
RSplitDotHead(s) ==
    LET dots == { k \in 1..Len(s) : s[k] = "." }
    IN  IF dots = {} THEN s
        ELSE SubSeq(s, 1, (CHOOSE k \in dots : \A j \in dots : j <= k) - 1)

\* the [\w.]+ group: the longest run of word tokens and dots at the start
RECURSIVE WordRun(_)
WordRun(s) ==
    IF s # <<>> /\ (IsWord(Head(s)) \/ Head(s) = ".")
    THEN <<Head(s)>> \o WordRun(Tail(s))
    ELSE <<>>

\* PACKAGE_PATTERN at the start of one line: ^\s*package\s+([\w.]+),
\* <<>> when the line does not match
MatchLine(line) ==
    LET l == LStrip(line)
    IN  IF StartsWith(l, <<"package", " ">>)
        THEN WordRun(LStrip(Tail(l)))
        ELSE <<>>

\* PACKAGE_PATTERN.search(content): group 1 of the first matching line
RECURSIVE PackageOf(_)
PackageOf(content) ==
    IF content = <<>> THEN [found |-> FALSE, package |-> <<>>]
    ELSE IF MatchLine(Head(content)) # <<>>
         THEN [found |-> TRUE, package |-> MatchLine(Head(content))]
         ELSE PackageOf(Tail(content))

Err(kind, package) == [kind |-> kind, package |-> package]

\* Mutant of validate_policy_file: the reserved-namespace branch does not
\* return, the expected-prefix check runs as well
validate_policy_file_no_return(file, expected_prefix) ==
    LET m == PackageOf(file.content)
        package == m.package
        hits == { k \in 1..Len(RESERVED_PREFIXES) :
                      StartsWith(package, RESERVED_PREFIXES[k]) }
        system_prefix == Replace(expected_prefix, <<".", "policies">>, <<".", "system">>)
    IN  IF ~file.readable THEN <<Err("unreadable", <<>>)>>
        ELSE IF ~m.found THEN <<Err("no-package", <<>>)>>
        ELSE (IF hits # {} THEN <<Err("reserved", package)>> ELSE <<>>)
             \o (IF /\ ~StartsWith(package, expected_prefix)
                    /\ ~StartsWith(package, system_prefix)
                    /\ ~StartsWith(package,
                                   RSplitDotHead(expected_prefix) \o <<".", "system">>)
                 THEN <<Err("expected-prefix", package)>>
                 ELSE <<>>)

\* validate_policy_file: the errors of one file under policies/
validate_policy_file(file, expected_prefix) ==
    LET m == PackageOf(file.content)
        package == m.package
        hits == { k \in 1..Len(RESERVED_PREFIXES) :
                      StartsWith(package, RESERVED_PREFIXES[k]) }
        system_prefix == Replace(expected_prefix, <<".", "policies">>, <<".", "system">>)
    IN  IF ~file.readable THEN <<Err("unreadable", <<>>)>>
        ELSE IF ~m.found THEN <<Err("no-package", <<>>)>>
        ELSE IF hits # {} THEN <<Err("reserved", package)>>
        ELSE IF /\ ~StartsWith(package, expected_prefix)
                /\ ~StartsWith(package, system_prefix)
                /\ ~StartsWith(package,
                               RSplitDotHead(expected_prefix) \o <<".", "system">>)
             THEN <<Err("expected-prefix", package)>>
        ELSE <<>>

\* validate_helper_file: the errors of one file under helpers/
validate_helper_file(file, expected_prefix) ==
    LET m == PackageOf(file.content)
    IN  IF ~file.readable THEN <<Err("unreadable", <<>>)>>
        ELSE IF ~m.found THEN <<Err("no-package", <<>>)>>
        ELSE IF ~StartsWith(m.package, expected_prefix)
             THEN <<Err("expected-prefix", m.package)>>
        ELSE <<>>

\* Mutant of validate_system_file: a prefix test instead of the equality
validate_system_file_prefix(file, expected_package) ==
    LET m == PackageOf(file.content)
    IN  IF ~file.readable THEN <<Err("unreadable", <<>>)>>
        ELSE IF ~m.found THEN <<Err("no-package", <<>>)>>
        ELSE IF ~StartsWith(m.package, expected_package)
             THEN <<Err("exact", m.package)>>
        ELSE <<>>

\* validate_system_file: the errors of one file under system/
validate_system_file(file, expected_package) ==
    LET m == PackageOf(file.content)
    IN  IF ~file.readable THEN <<Err("unreadable", <<>>)>>
        ELSE IF ~m.found THEN <<Err("no-package", <<>>)>>
        ELSE IF m.package # expected_package
             THEN <<Err("exact", m.package)>>
        ELSE <<>>

\* lines 177-180
CatalogPrefix(name) == <<"cupcake", ".", "catalog", ".">> \o normalize_name(name)
expected_policies_prefix(name) == CatalogPrefix(name) \o <<".", "policies">>
expected_helpers_prefix(name) == CatalogPrefix(name) \o <<".", "helpers">>
expected_system_package(name) == CatalogPrefix(name) \o <<".", "system">>

\* Rulebook names in manifest.yaml; <<>> when the manifest has no name or an
\* empty one
NsNames == { <<>>, <<"foo">>, <<"my", "-", "rules">> }

\* What follows 'package ' in the files
NsPackages ==
    { <<"cupcake", ".", "catalog", ".", "foo", ".", "policies", ".", "extra">>,
      <<"cupcake", ".", "policies", ".", "extra">>,
      <<"cupcake", ".", "helpers", ".", "extra">>,
      <<"cupcake", ".", "policies", "extra">>,
      <<"cupcake", ".", "catalog", ".", "foo", ".", "system">>,
      <<"cupcake", ".", "catalog", ".", "foo", ".", "system", ".", "extra">>,
      <<"cupcake", ".", "catalog", ".", "my", "_", "rules", ".", "system">>,
      <<"cupcake", ".", "catalog", ".", "foo", ".", "helpers", ".", "extra">>,
      <<"other", ".", "extra">>,
      <<"cupcake", ".", "catalog", ".", "my", "-", "rules", ".", "system">> }

\* File contents: a comment line, then the package line or nothing
NsContents ==
    { << <<"#", " ", "rules">>, <<"package", " ">> \o pkg >> : pkg \in NsPackages }
        \cup { << <<"#", " ", "rules">> >> }

RegoFiles ==
    { [dir |-> d, readable |-> TRUE, content |-> c] :
          d \in {"policies", "helpers", "system"}, c \in NsContents }
        \cup { [dir |-> d, readable |-> FALSE, content |-> <<>>] :
                   d \in {"policies", "helpers", "system"} }

\* the positions of the files of one directory, in rglob order
RECURSIVE FilesOf(_, _, _)
FilesOf(files, dir, k) ==
    IF k > Len(files) THEN <<>>
    ELSE (IF files[k].dir = dir THEN <<k>> ELSE <<>>) \o FilesOf(files, dir, k + 1)

\* the order validate_namespace goes through the files: policies/, then
\* helpers/, then system/
ValidationOrder(files) ==
    FilesOf(files, "policies", 1) \o FilesOf(files, "helpers", 1)
        \o FilesOf(files, "system", 1)

\* the errors of one file, tagged with the file's position
Tagged(errs, k) == [j \in 1..Len(errs) |-> [file |-> k, kind |-> errs[j].kind,
                                            package |-> errs[j].package]]

TopError(kind) == <<[file |-> 0, kind |-> kind, package |-> <<>>]>>

\* the other scripts are not running
GiIdle ==
    /\ rulebooks_dir_exists = FALSE
    /\ rulebooks = <<>>
    /\ registry = [listing |-> "error", tags |-> {}, view |-> <<>>]
    /\ release_tags = {}
    /\ entries = <<>>
    /\ clock = 0
    /\ gi_i = 1
    /\ gi_pc = "idle"
    /\ index = NoIndex

InitNamespace ==
    /\ vn_manifest \in {"mapping", "other", "missing"}
    /\ vn_name \in IF vn_manifest = "mapping" THEN NsNames ELSE { <<>> }
    /\ vn_files \in UNION { [1..n -> RegoFiles] : n \in 0..MaxFiles }
    /\ vn_policies_dir \in
           IF FilesOf(vn_files, "policies", 1) # <<>> THEN {TRUE} ELSE BOOLEAN
    /\ vn_i = 1
    /\ vn_pc = "start"
    /\ vn_errors = <<>>
    /\ GiIdle
    /\ VrIdle

\* lines 173 and 47-50: manifest.yaml loads to None (an empty file) or to a
\* list or string, and manifest.get raises AttributeError, which
\* get_rulebook_name does not catch
VnNameRaises ==
    /\ vn_pc = "start"
    /\ vn_manifest = "other"
    /\ vn_pc' = "raised"
    /\ UNCHANGED <<gi_vars, vr_vars, vn_manifest, vn_name, vn_policies_dir, vn_files, vn_i,
                   vn_errors>>

\* lines 173-175: no manifest.yaml, invalid YAML, or no name in it
VnNoName ==
    /\ vn_pc = "start"
    /\ vn_manifest # "other"
    /\ vn_name = <<>>
    /\ vn_errors' = TopError("no-name")
    /\ vn_pc' = "done"
    /\ UNCHANGED <<gi_vars, vr_vars, vn_manifest, vn_name, vn_policies_dir, vn_files, vn_i>>

\* lines 183-185
VnNoPoliciesDir ==
    /\ vn_pc = "start"
    /\ vn_name # <<>>
    /\ ~vn_policies_dir
    /\ vn_errors' = TopError("no-policies-dir")
    /\ vn_pc' = "done"
    /\ UNCHANGED <<gi_vars, vr_vars, vn_manifest, vn_name, vn_policies_dir, vn_files, vn_i>>

\* lines 187-189
VnNoRegoFiles ==
    /\ vn_pc = "start"
    /\ vn_name # <<>>
    /\ vn_policies_dir
    /\ FilesOf(vn_files, "policies", 1) = <<>>
    /\ vn_errors' = TopError("no-rego-files")
    /\ vn_pc' = "done"
    /\ UNCHANGED <<gi_vars, vr_vars, vn_manifest, vn_name, vn_policies_dir, vn_files, vn_i>>

\* lines 172-189 passed: the files are validated next
VnBegin ==
    /\ vn_pc = "start"
    /\ vn_name # <<>>
    /\ vn_policies_dir
    /\ FilesOf(vn_files, "policies", 1) # <<>>
    /\ vn_pc' = "files"
    /\ UNCHANGED <<gi_vars, vr_vars, vn_manifest, vn_name, vn_policies_dir, vn_files, vn_i, vn_errors>>

NextFile == ValidationOrder(vn_files)[vn_i]

\* lines 192-195
VnPolicyFile ==
    /\ vn_pc = "files"
    /\ vn_i <= Len(vn_files)
    /\ vn_files[NextFile].dir = "policies"
    /\ vn_errors' = vn_errors \o
           Tagged(validate_policy_file(vn_files[NextFile],
                                       expected_policies_prefix(vn_name)), NextFile)
    /\ vn_i' = vn_i + 1
    /\ UNCHANGED <<gi_vars, vr_vars, vn_manifest, vn_name, vn_policies_dir, vn_files, vn_pc>>

\* lines 198-206
VnHelperFile ==
    /\ vn_pc = "files"
    /\ vn_i <= Len(vn_files)
    /\ vn_files[NextFile].dir = "helpers"
    /\ vn_errors' = vn_errors \o
           Tagged(validate_helper_file(vn_files[NextFile],
                                       expected_helpers_prefix(vn_name)), NextFile)
    /\ vn_i' = vn_i + 1
    /\ UNCHANGED <<gi_vars, vr_vars, vn_manifest, vn_name, vn_policies_dir, vn_files, vn_pc>>

\* lines 209-217
VnSystemFile ==
    /\ vn_pc = "files"
    /\ vn_i <= Len(vn_files)
    /\ vn_files[NextFile].dir = "system"
    /\ vn_errors' = vn_errors \o
           Tagged(validate_system_file(vn_files[NextFile],
                                       expected_system_package(vn_name)), NextFile)
    /\ vn_i' = vn_i + 1
    /\ UNCHANGED <<gi_vars, vr_vars, vn_manifest, vn_name, vn_policies_dir, vn_files, vn_pc>>

\* line 219
VnReturn ==
    /\ vn_pc = "files"
    /\ vn_i > Len(vn_files)
    /\ vn_pc' = "done"
    /\ UNCHANGED <<gi_vars, vr_vars, vn_manifest, vn_name, vn_policies_dir, vn_files, vn_i, vn_errors>>

NextNamespace ==
    \/ VnNameRaises
    \/ VnNoName
    \/ VnNoPoliciesDir
    \/ VnNoRegoFiles
    \/ VnBegin
    \/ VnPolicyFile
    \/ VnHelperFile
    \/ VnSystemFile
    \/ VnReturn

SpecNamespace == InitNamespace /\ [][NextNamespace]_vars

------------------------------------------------------------------------------
(* Claims about validate_namespace                                           *)

\* the files validate_namespace has gone through
ProcessedFiles ==
    IF vn_pc \in {"files", "done"}
    THEN { ValidationOrder(vn_files)[j] : j \in 1..(vn_i - 1) }
    ELSE {}

\* the errors reported for the file at position k
ErrorsOf(k) ==
    LET OfFile(e) == e.file = k
    IN  SelectSeq(vn_errors, OfFile)

\* the file declares a package that starts with a reserved prefix
DeclaresReserved(file) ==
    /\ file.readable
    /\ PackageOf(file.content).found
    /\ \E r \in { <<"cupcake", ".", "policies">>, <<"cupcake", ".", "global">>,
                  <<"cupcake", ".", "system">>, <<"cupcake", ".", "helpers">> } :
          StartsWith(PackageOf(file.content).package, r)

OnlyReservedError(k) ==
    /\ Len(ErrorsOf(k)) = 1
    /\ ErrorsOf(k)[1].kind = "reserved"

\* C3: a file under policies/ whose declared package starts with a reserved
\* prefix gets exactly one error, the reserved-namespace error, and no
\* expected-prefix error, whatever the rulebook name.
C3_PolicyReservedOnce ==
    \A k \in ProcessedFiles :
        (vn_files[k].dir = "policies" /\ DeclaresReserved(vn_files[k]))
            => OnlyReservedError(k)

\* policies/ file declaring cupcake.policies.extra in rulebook my-rules
C3_Witness ==
    /\ vn_name = <<"my", "-", "rules">>
    /\ \E k \in ProcessedFiles :
          /\ vn_files[k].dir = "policies"
          /\ vn_files[k].readable
          /\ PackageOf(vn_files[k].content).package
                 = <<"cupcake", ".", "policies", ".", "extra">>
          /\ OnlyReservedError(k)

\* C4: a file under helpers/ or system/ whose declared package starts with a
\* reserved prefix is reported as a reserved-namespace violation, with no
\* other namespace error for that file.
C4_ReservedEveryCategory ==
    \A k \in ProcessedFiles :
        (vn_files[k].dir \in {"helpers", "system"} /\ DeclaresReserved(vn_files[k]))
            => OnlyReservedError(k)

\* cupcake.catalog.<name with hyphens as underscores>.system
ExpectedSystem ==
    <<"cupcake", ".", "catalog", ".">>
        \o [j \in 1..Len(vn_name) |-> IF vn_name[j] = "-" THEN "_" ELSE vn_name[j]]
        \o <<".", "system">>

\* C5: a file under system/ passes only if its declared package equals the
\* expected system package; any other declared package, one that extends the
\* expected package included, gets the exact-match error.
C5_SystemExactMatch ==
    \A k \in ProcessedFiles :
        vn_files[k].dir = "system" =>
            LET m == PackageOf(vn_files[k].content)
            IN  /\ ErrorsOf(k) = <<>> =>
                      /\ vn_files[k].readable
                      /\ m.found
                      /\ m.package = ExpectedSystem
                /\ (vn_files[k].readable /\ m.found /\ m.package # ExpectedSystem) =>
                      /\ Len(ErrorsOf(k)) = 1
                      /\ ErrorsOf(k)[1].kind = "exact"

\* system/ file declaring <expected>.extra, reported with the exact-match
\* error
C5_Witness ==
    \E k \in ProcessedFiles :
        /\ vn_files[k].dir = "system"
        /\ vn_files[k].readable
        /\ PackageOf(vn_files[k].content).package = ExpectedSystem \o <<".", "extra">>
        /\ Len(ErrorsOf(k)) = 1
        /\ ErrorsOf(k)[1].kind = "exact"

------------------------------------------------------------------------------
(* validate-rulebook.py                                                      *)

VALID_HARNESSES == {"claude", "cursor", "opencode", "factory"}

\* line 81: the least length of a trimmed description
MinDescriptionLength == 10

\* NAME_PATTERN.match(name): ^[a-z][a-z0-9-]*$
NameMatches(name) ==
    /\ name # <<>>
    /\ Head(name) \in LowerWords
    /\ \A k \in 1..Len(name) : name[k] \in LowerWords \cup Digits \cup {"-"}

\* \d+ at the start of s: what is left behind the digits
RECURSIVE DropDigits(_)
DropDigits(s) == IF s # <<>> /\ Head(s) \in Digits THEN DropDigits(Tail(s)) ELSE s

\* the rest of s behind a leading \d+\. , <<"!">> when s does not start so
AfterNumberDot(s) ==
    LET r == DropDigits(s)
    IN  IF s # <<>> /\ Head(s) \in Digits /\ r # <<>> /\ Head(r) = "."
        THEN Tail(r) ELSE <<"!">>

\* VERSION_PATTERN.match(str(version)): ^\d+\.\d+\.\d+ at the start only
VersionMatches(version) ==
    LET r == AfterNumberDot(AfterNumberDot(version))
    IN  r # <<>> /\ Head(r) \in Digits

E(kind, arg) == [kind |-> kind, arg |-> arg]

\* Mutant of NameErrors: the directory name is not compared
NameErrorsNoDirectory(name, dirname) ==
    IF name = <<>> THEN <<E("name-required", "")>>
    ELSE IF ~NameMatches(name) THEN <<E("name-pattern", "")>>
    ELSE <<>>

\* lines 57-68
NameErrors(name, dirname) ==
    IF name = <<>> THEN <<E("name-required", "")>>
    ELSE IF ~NameMatches(name) THEN <<E("name-pattern", "")>>
    ELSE IF name # dirname THEN <<E("name-mismatch", "")>>
    ELSE <<>>

\* lines 70-75
VersionErrors(version) ==
    IF version = <<>> THEN <<E("version-required", "")>>
    ELSE IF ~VersionMatches(version) THEN <<E("version-semver", "")>>
    ELSE <<>>

\* Mutant of DescriptionErrors: <= instead of <
DescriptionErrorsOffByOne(description) ==
    IF description = <<>> THEN <<E("description-required", "")>>
    ELSE IF Len(Strip(description)) <= MinDescriptionLength
         THEN <<E("description-short", "")>>
    ELSE <<>>

\* lines 77-82
DescriptionErrors(description) ==
    IF description = <<>> THEN <<E("description-required", "")>>
    ELSE IF Len(Strip(description)) < MinDescriptionLength
         THEN <<E("description-short", "")>>
    ELSE <<>>

\* 'not x' of a YAML value that is absent, a string or a list
Falsy(v) == v.type = "none" \/ v.items = <<>>

RECURSIVE InvalidHarnesses(_)
InvalidHarnesses(items) ==
    IF items = <<>> THEN <<>>
    ELSE (IF Head(items) \notin VALID_HARNESSES
          THEN <<E("harness-invalid", Head(items))>> ELSE <<>>)
         \o InvalidHarnesses(Tail(items))

\* lines 84-97
HarnessErrors(harnesses) ==
    IF Falsy(harnesses) THEN <<E("harnesses-required", "")>>
    ELSE IF harnesses.type # "list" THEN <<E("harnesses-array", "")>>
    ELSE IF Len(harnesses.items) = 0 THEN <<E("harnesses-empty", "")>>
    ELSE InvalidHarnesses(harnesses.items)

IndexName(i) == CASE i = 0 -> "0" [] i = 1 -> "1" [] i = 2 -> "2" [] OTHER -> "n"

RECURSIVE MaintainerItemErrors(_, _)
MaintainerItemErrors(items, i) ==
    IF items = <<>> THEN <<>>
    ELSE (IF ~Head(items).is_dict THEN <<E("maintainer-object", IndexName(i))>>
          ELSE IF Head(items).name = <<>> THEN <<E("maintainer-name", IndexName(i))>>
          ELSE <<>>)
         \o MaintainerItemErrors(Tail(items), i + 1)

\* lines 99-106
MaintainerErrors(maintainers) ==
    IF ~Falsy(maintainers) /\ maintainers.type = "list"
    THEN MaintainerItemErrors(maintainers.items, 0)
    ELSE <<>>

\* validate_manifest
validate_manifest(manifest, dirname) ==
    LET head == (IF manifest.apiVersion # API_VERSION
                 THEN <<E("apiVersion", "")>> ELSE <<>>)
                \o (IF manifest.kind # "Rulebook" THEN <<E("kind", "")>> ELSE <<>>)
        metadata == manifest.metadata
    IN  IF manifest.metadata_type # "dict"
        THEN head \o <<E("metadata", "")>>
        ELSE head \o NameErrors(metadata.name, dirname)
                  \o VersionErrors(metadata.version)
                  \o DescriptionErrors(metadata.description)
                  \o HarnessErrors(metadata.harnesses)
                  \o MaintainerErrors(metadata.maintainers)

RECURSIVE HarnessDirErrors(_, _)
HarnessDirErrors(fs, harnesses) ==
    IF harnesses = <<>> THEN <<>>
    ELSE LET h == Head(harnesses)
             state == IF h \in DOMAIN fs.harness_dirs
                      THEN fs.harness_dirs[h] ELSE "missing"
         IN  (IF state = "missing" THEN <<E("harness-dir-missing", h)>>
              ELSE IF state = "empty" THEN <<E("harness-no-rego", h)>>
              ELSE <<>>)
             \o HarnessDirErrors(fs, Tail(harnesses))

\* validate_structure
validate_structure(fs, harnesses) ==
    LET readme == IF ~fs.readme THEN <<E("readme", "")>> ELSE <<>>
    IN  IF ~fs.policies THEN readme \o <<E("policies-dir", "")>>
        ELSE readme
                 \o (IF ~fs.evaluate THEN <<E("evaluate", "")>> ELSE <<>>)
                 \o HarnessDirErrors(fs, harnesses)

\* Mutant of ExitCode: warnings fail the run as well
ExitCodeWarningsFail(errors, warnings) ==
    IF errors # <<>> \/ warnings # <<>> THEN 1 ELSE 0

\* main, lines 217-222
ExitCode(errors, warnings) == IF errors # <<>> THEN 1 ELSE 0

\* Directory names and metadata.name values: foo, bar, Foo and none
VrDirNames == { <<"foo">>, <<"bar">> }
VrNames == { <<>>, <<"foo">>, <<"bar">>, <<"Foo">> }

\* metadata.version values: none, 1.0, 1.2.0 and 1.0.0-beta
VrVersions ==
    { <<>>,
      <<"1", ".", "0">>,
      <<"1", ".", "2", ".", "0">>,
      <<"1", ".", "0", ".", "0", "-", "beta">> }

\* metadata.description values: none, nine and ten characters between blanks
VrDescriptions ==
    { <<>>,
      <<" ", "0", "1", "2", "3", "4", "5", "6", "7", "8", " ">>,
      <<" ", "0", "1", "2", "3", "4", "5", "6", "7", "8", "9", " ">> }

\* metadata.harnesses values: none, a string, and lists
VrHarnesses ==
    { [type |-> "none", items |-> <<>>],
      [type |-> "str", items |-> <<"claude">>],
      [type |-> "list", items |-> <<>>],
      [type |-> "list", items |-> <<"claude">>],
      [type |-> "list", items |-> <<"claude", "bogus">>] }

\* metadata.maintainers values: none, one named object, and an object
\* without name followed by a string
VrMaintainers ==
    { [type |-> "none", items |-> <<>>],
      [type |-> "list", items |-> <<[is_dict |-> TRUE, name |-> <<"foo">>]>>],
      [type |-> "list", items |-> <<[is_dict |-> TRUE, name |-> <<>>],
                                    [is_dict |-> FALSE, name |-> <<>>]>>] }

NoMetadata ==
    [name |-> <<>>, version |-> <<>>, description |-> <<>>,
     harnesses |-> [type |-> "none", items |-> <<>>],
     maintainers |-> [type |-> "none", items |-> <<>>]]

VrHeads == { <<API_VERSION, "Rulebook">>, <<"cupcake.dev/v2", "Rulebook">>,
             <<API_VERSION, "Catalog">> }

\* The documents manifest.yaml can hold: metadata an object, absent, or a
\* value that is no object
VrManifests ==
    { [apiVersion |-> h[1], kind |-> h[2], metadata_type |-> "dict",
       metadata |-> [name |-> n, version |-> v, description |-> d,
                     harnesses |-> hs, maintainers |-> ms]] :
          h \in VrHeads, n \in VrNames, v \in VrVersions, d \in VrDescriptions,
          hs \in VrHarnesses, ms \in VrMaintainers }
        \cup { [apiVersion |-> h[1], kind |-> h[2], metadata_type |-> t,
                metadata |-> NoMetadata] : h \in VrHeads, t \in {"absent", "other"} }

NoDocument ==
    [apiVersion |-> "", kind |-> "", metadata_type |-> "absent", metadata |-> NoMetadata]

NoFiles ==
    [readme |-> FALSE, changelog |-> FALSE, policies |-> FALSE, evaluate |-> FALSE,
     harness_dirs |-> [h \in {"claude", "bogus"} |-> "missing"]]

\* The rulebook directory: without policies/ there are no harness directories
VrFileSystems ==
    { [readme |-> r, changelog |-> c, policies |-> TRUE, evaluate |-> ev,
       harness_dirs |-> [h \in {"claude", "bogus"} |-> IF h = "claude" THEN cl ELSE bo]] :
          r \in BOOLEAN, c \in BOOLEAN, ev \in BOOLEAN,
          cl \in {"missing", "empty", "rego"}, bo \in {"missing", "rego"} }
        \cup { [NoFiles EXCEPT !.readme = r, !.changelog = c, !.evaluate = ev] :
                   r \in BOOLEAN, c \in BOOLEAN, ev \in BOOLEAN }

InitRulebook ==
    /\ vr_path \in {"missing", "file", "dir"}
    /\ vr_dirname \in IF vr_path = "dir" THEN VrDirNames ELSE { <<"foo">> }
    /\ vr_fs \in IF vr_path = "dir" THEN VrFileSystems ELSE { NoFiles }
    /\ vr_file \in IF vr_path = "dir"
                   THEN {"missing", "invalid", "empty", "other", "doc"}
                   ELSE {"missing"}
    /\ vr_manifest \in IF vr_file = "doc" THEN VrManifests ELSE { NoDocument }
    /\ vr_manifest_errors = <<>>
    /\ vr_errors = <<>>
    /\ vr_warnings = <<>>
    /\ vr_exit = 0 - 1
    /\ vr_pc = "start"
    /\ GiIdle
    /\ VnIdle

\* main, lines 194-200: the path is no directory
MainBadPath ==
    /\ vr_pc = "start"
    /\ vr_path # "dir"
    /\ vr_exit' = 1
    /\ vr_pc' = "exited"
    /\ UNCHANGED <<gi_vars, vn_vars, vr_path, vr_dirname, vr_fs, vr_file, vr_manifest,
                   vr_manifest_errors, vr_errors, vr_warnings>>

\* validate_rulebook, lines 156-169: no manifest to validate
VrNoManifest ==
    /\ vr_pc = "start"
    /\ vr_path = "dir"
    /\ vr_file \in {"missing", "invalid", "empty"}
    /\ vr_errors' = <<E("manifest-" \o vr_file, "")>>
    /\ vr_warnings' = <<>>
    /\ vr_pc' = "returned"
    /\ UNCHANGED <<gi_vars, vn_vars, vr_path, vr_dirname, vr_fs, vr_file, vr_manifest,
                   vr_manifest_errors, vr_exit>>

\* validate_rulebook, lines 171-183
VrValidate ==
    /\ vr_pc = "start"
    /\ vr_path = "dir"
    /\ vr_file = "doc"
    /\ vr_manifest.metadata_type # "other"
    /\ LET harnesses == vr_manifest.metadata.harnesses
       IN  /\ vr_manifest_errors' = validate_manifest(vr_manifest, vr_dirname)
           /\ vr_errors' =
                  vr_manifest_errors'
                      \o (IF ~Falsy(harnesses) /\ harnesses.type = "list"
                          THEN validate_structure(vr_fs, harnesses.items)
                          ELSE <<>>)
    /\ vr_warnings' = IF ~vr_fs.changelog THEN <<E("changelog", "")>> ELSE <<>>
    /\ vr_pc' = "returned"
    /\ UNCHANGED <<gi_vars, vn_vars, vr_path, vr_dirname, vr_fs, vr_file, vr_manifest,
                   vr_exit>>

\* validate_rulebook, lines 171-175: metadata is present and no object, so
\* manifest.get("metadata", {}).get raises AttributeError; the interpreter
\* ends with exit code 1
VrMetadataRaises ==
    /\ vr_pc = "start"
    /\ vr_path = "dir"
    /\ vr_file = "doc"
    /\ vr_manifest.metadata_type = "other"
    /\ vr_manifest_errors' = validate_manifest(vr_manifest, vr_dirname)
    /\ vr_errors' = vr_manifest_errors'
    /\ vr_exit' = 1
    /\ vr_pc' = "crashed"
    /\ UNCHANGED <<gi_vars, vn_vars, vr_path, vr_dirname, vr_fs, vr_file, vr_manifest,
                   vr_warnings>>

\* validate_rulebook, lines 168-172: the document is not empty and no
\* mapping (a list, a string), so manifest.get raises AttributeError in
\* validate_manifest at line 42; the interpreter ends with exit code 1
VrDocumentRaises ==
    /\ vr_pc = "start"
    /\ vr_path = "dir"
    /\ vr_file = "other"
    /\ vr_exit' = 1
    /\ vr_pc' = "crashed"
    /\ UNCHANGED <<gi_vars, vn_vars, vr_path, vr_dirname, vr_fs, vr_file, vr_manifest,
                   vr_manifest_errors, vr_errors, vr_warnings>>

\* main, lines 205-222
MainExit ==
    /\ vr_pc = "returned"
    /\ vr_exit' = ExitCode(vr_errors, vr_warnings)
    /\ vr_pc' = "exited"
    /\ UNCHANGED <<gi_vars, vn_vars, vr_path, vr_dirname, vr_fs, vr_file, vr_manifest,
                   vr_manifest_errors, vr_errors, vr_warnings>>

NextRulebook ==
    \/ MainBadPath
    \/ VrNoManifest
    \/ VrValidate
    \/ VrMetadataRaises
    \/ VrDocumentRaises
    \/ MainExit

SpecRulebook == InitRulebook /\ [][NextRulebook]_vars

------------------------------------------------------------------------------
(* Claims about validate_manifest, validate_rulebook and main                *)

\* validate_manifest has returned its list
ManifestValidated ==
    vr_file = "doc" /\ vr_pc \in {"returned", "exited", "crashed"}

HasMetadata == vr_manifest.metadata_type = "dict"

CountKind(errors, kind) ==
    Cardinality({ k \in 1..Len(errors) : errors[k].kind = kind })

\* C6 as stated: whenever metadata.name differs from the directory name, the
\* list validate_manifest returns has exactly one naming-mismatch error,
\* whatever the name is.
C6_MismatchAlwaysReported ==
    ( /\ ManifestValidated
      /\ HasMetadata
      /\ vr_manifest.metadata.name # <<>>
      /\ vr_manifest.metadata.name # vr_dirname )
        => CountKind(vr_manifest_errors, "name-mismatch") = 1

\* C6 as amended: a metadata.name that is not empty, matches
\* ^[a-z][a-z0-9-]*$ and differs from the directory name gets exactly one
\* naming-mismatch error, whatever the other fields are; a name that is
\* missing or does not match the pattern gets no naming-mismatch error.
C6_MismatchOfWellFormedName ==
    (ManifestValidated /\ HasMetadata) =>
        CountKind(vr_manifest_errors, "name-mismatch")
            = IF /\ vr_manifest.metadata.name # <<>>
                 /\ NameMatches(vr_manifest.metadata.name)
                 /\ vr_manifest.metadata.name # vr_dirname
              THEN 1 ELSE 0

\* name bar in directory foo, next to errors of other fields
C6_Witness ==
    /\ ManifestValidated
    /\ HasMetadata
    /\ vr_dirname = <<"foo">>
    /\ vr_manifest.metadata.name = <<"bar">>
    /\ CountKind(vr_manifest_errors, "name-mismatch") = 1
    /\ CountKind(vr_manifest_errors, "version-semver") = 1
    /\ CountKind(vr_manifest_errors, "apiVersion") = 1

\* the schema invariant of the data model
SchemaInvariant ==
    /\ vr_manifest.apiVersion = "cupcake.dev/v1"
    /\ vr_manifest.kind = "Rulebook"
    /\ HasMetadata
    /\ NameMatches(vr_manifest.metadata.name)
    /\ vr_manifest.metadata.name = vr_dirname
    /\ VersionMatches(vr_manifest.metadata.version)
    /\ vr_manifest.metadata.harnesses.type = "list"
    /\ vr_manifest.metadata.harnesses.items # <<>>
    /\ \A k \in 1..Len(vr_manifest.metadata.harnesses.items) :
          vr_manifest.metadata.harnesses.items[k]
              \in {"claude", "cursor", "opencode", "factory"}
    /\ Len(Strip(vr_manifest.metadata.description)) >= 10

\* every entry of a maintainers list is an object with a name
MaintainersWellFormed ==
    vr_manifest.metadata.maintainers.type = "list" =>
        \A k \in 1..Len(vr_manifest.metadata.maintainers.items) :
            /\ vr_manifest.metadata.maintainers.items[k].is_dict
            /\ vr_manifest.metadata.maintainers.items[k].name # <<>>

\* C7 as stated: a manifest that satisfies the schema invariant gets an empty
\* error list from validate_manifest.
C7_SchemaValidNoErrors ==
    (ManifestValidated /\ SchemaInvariant) => vr_manifest_errors = <<>>

\* C7 as amended: a manifest that satisfies the schema invariant and whose
\* maintainers, when a list, holds only objects with a name gets an empty
\* error list from validate_manifest.
C7_SchemaValidMaintainersNoErrors ==
    (ManifestValidated /\ SchemaInvariant /\ MaintainersWellFormed)
        => vr_manifest_errors = <<>>

\* a valid manifest with version 1.0.0-beta and a named maintainer
C7_Witness ==
    /\ ManifestValidated
    /\ SchemaInvariant
    /\ vr_manifest.metadata.version = <<"1", ".", "0", ".", "0", "-", "beta">>
    /\ vr_manifest.metadata.maintainers.items # <<>>
    /\ MaintainersWellFormed
    /\ vr_manifest_errors = <<>>

\* C8: run on an existing directory, the command exits with 1 exactly when
\* the error list validate_rulebook returned is not empty and with 0
\* otherwise, whatever the warnings; a missing CHANGELOG.md is in the
\* warnings and never in the errors.
C8_ExitCodeFromErrorsOnly ==
    /\ (vr_path = "dir" /\ vr_pc = "exited") =>
          /\ vr_exit = 1 <=> vr_errors # <<>>
          /\ vr_exit = 0 <=> vr_errors = <<>>
    /\ CountKind(vr_errors, "changelog") = 0
    /\ (vr_pc \in {"returned", "exited"} /\ vr_file = "doc" /\ ~vr_fs.changelog)
          => CountKind(vr_warnings, "changelog") = 1

\* no CHANGELOG.md, no error: the command exits with 0
C8_Witness ==
    /\ vr_pc = "exited"
    /\ vr_path = "dir"
    /\ ~vr_fs.changelog
    /\ vr_warnings # <<>>
    /\ vr_errors = <<>>
    /\ vr_exit = 0

\* the harnesses the manifest declares: the items of metadata.harnesses when
\* it is a list
DeclaredHarnesses ==
    IF HasMetadata /\ vr_manifest.metadata.harnesses.type = "list"
    THEN vr_manifest.metadata.harnesses.items
    ELSE <<>>

\* the structure violations of the directory: README.md, policies/, and under
\* policies/ the aggregation entrypoint and one directory with a .rego file
\* for every declared harness
StructureViolations ==
    (IF ~vr_fs.readme THEN { E("readme", "") } ELSE {})
    \cup (IF ~vr_fs.policies THEN { E("policies-dir", "") }
          ELSE (IF ~vr_fs.evaluate THEN { E("evaluate", "") } ELSE {})
               \cup { E("harness-dir-missing", DeclaredHarnesses[k]) :
                        k \in { j \in 1..Len(DeclaredHarnesses) :
                                  DeclaredHarnesses[j] \notin DOMAIN vr_fs.harness_dirs
                                  \/ vr_fs.harness_dirs[DeclaredHarnesses[j]] = "missing" } }
               \cup { E("harness-no-rego", DeclaredHarnesses[k]) :
                        k \in { j \in 1..Len(DeclaredHarnesses) :
                                  DeclaredHarnesses[j] \in DOMAIN vr_fs.harness_dirs
                                  /\ vr_fs.harness_dirs[DeclaredHarnesses[j]] = "empty" } })

InErrors(v) == \E k \in 1..Len(vr_errors) : vr_errors[k] = v

\* validate_rulebook was given a manifest file that parses to a non-empty
\* document and has ended
NonEmptyDocumentHandled ==
    /\ vr_path = "dir"
    /\ vr_file \in {"doc", "other"}
    /\ vr_pc # "start"

\* C11: for every rulebook whose manifest file parses to a non-empty
\* document, validate_rulebook returns a list, and every manifest error and
\* every structure violation of the directory (missing README.md, missing
\* policies/, missing system/evaluate.rego, missing or empty
\* policies/<harness>/ of a declared harness) is in it, whatever the other
\* errors are.
C11_AllViolationsReported ==
    NonEmptyDocumentHandled =>
        /\ vr_pc # "crashed"
        /\ \A k \in 1..Len(vr_manifest_errors) : InErrors(vr_manifest_errors[k])
        /\ \A v \in StructureViolations : InErrors(v)

-------------------------------------------------------------------------------
(* Claims about the order of the directories                                 *)

\* the orders n directories can be processed in
Orders(n) == Permutations(1..n)

Permuted(dirs, p) == [k \in 1..Len(dirs) |-> dirs[p[k]]]

\* an entry, timestamps aside
WithoutTimes(e) == [key \in (DOMAIN e) \ {"created"} |-> e[key]]

SameSequence(a, b) ==
    /\ Len(a) = Len(b)
    /\ \A k \in 1..Len(a) : WithoutTimes(a[k]) = WithoutTimes(b[k])

CountOf(list, e) ==
    Cardinality({ k \in 1..Len(list) : WithoutTimes(list[k]) = WithoutTimes(e) })

\* the same entries, each as often, in whatever order
SameBag(a, b) ==
    /\ Len(a) = Len(b)
    /\ \A k \in 1..Len(a) : CountOf(a, a[k]) = CountOf(b, a[k])

DescendingByVersion(list) ==
    \A p, q \in 1..Len(list) :
        p < q => ~NumericGreater(VersionTuple(list[q]["version"]),
                                 VersionTuple(list[p]["version"]))

\* the run on the directories in order p, against the run that was made
OtherOrder(p) == EntriesInOrder(Permuted(rulebooks, p), registry)

\* C12 as stated: for a fixed registry state, processing the directories in
\* any other order yields the same names and under each name the same
\* sequence of entries, timestamps aside.
C12_AnyOrderSameEntries ==
    (Finished /\ rulebooks_dir_exists) =>
        \A p \in Orders(Len(rulebooks)) :
            LET other == OtherOrder(p)
            IN  /\ other.raised <=> gi_pc = "raised"
                /\ Returned =>
                      /\ DOMAIN other.entries = DOMAIN index.entries
                      /\ \A name \in DOMAIN index.entries :
                            SameSequence(other.entries[name], index.entries[name])

\* C12 amended: for a fixed registry state, processing the directories in
\* any other order raises exactly when this order does, and otherwise yields
\* the same names and under each name the same entries, each as often,
\* in descending order of version tuple, timestamps aside; only entries with
\* equal version tuples may change places.
C12_AnyOrderSameEntriesUpToTies ==
    (Finished /\ rulebooks_dir_exists) =>
        \A p \in Orders(Len(rulebooks)) :
            LET other == OtherOrder(p)
            IN  /\ other.raised <=> gi_pc = "raised"
                /\ Returned =>
                      /\ DOMAIN other.entries = DOMAIN index.entries
                      /\ \A name \in DOMAIN index.entries :
                            /\ SameBag(other.entries[name], index.entries[name])
                            /\ DescendingByVersion(other.entries[name])
                            /\ DescendingByVersion(index.entries[name])

\* 1.2.0 and 01.2.0 of one name were processed in this order: the other order
\* yields the same two entries, the other way round
C12_Witness ==
    /\ Returned
    /\ Len(rulebooks) >= 2
    /\ Accepted(rulebooks[1]) /\ Accepted(rulebooks[2])
    /\ rulebooks[1].manifest.metadata.name = rulebooks[2].manifest.metadata.name
    /\ rulebooks[1].manifest.metadata.version = <<"1", ".", "2", ".", "0">>
    /\ rulebooks[2].manifest.metadata.version = <<"0", "1", ".", "2", ".", "0">>
    /\ \E p \in Orders(Len(rulebooks)) :
          LET other == OtherOrder(p)
          IN  /\ p[1] = 2 /\ p[2] = 1
              /\ ~other.raised
              /\ \E name \in DOMAIN index.entries :
                    /\ SameBag(other.entries[name], index.entries[name])
                    /\ ~SameSequence(other.entries[name], index.entries[name])
                    /\ index.entries[name][1]["version"] = <<"1", ".", "2", ".", "0">>

\* every entry of rulebooks/ is a directory whose manifest parse_manifest
\* accepts, with a version the leading-semver pattern of validate_manifest
\* accepts
AllManifestsAccepted ==
    /\ rulebooks_dir_exists
    /\ rulebooks # <<>>
    /\ \A k \in 1..Len(rulebooks) :
          /\ Accepted(rulebooks[k])
          /\ VersionMatches(rulebooks[k].manifest.metadata.version)

\* C13: generate_index never raises on a set of rulebooks whose manifests
\* are all accepted by parse_manifest and whose versions pass the
\* leading-semver pattern of validate_manifest, whatever the registry returns:
\* the entries are grouped and sorted and the index is returned.
C13_AcceptedManifestsNeverRaise ==
    AllManifestsAccepted => gi_pc # "raised"

====
